---------------------------- MODULE Spec2Model ----------------------------
(***************************************************************************)
(* Model of bin/conf.py of splunk-jira: reading the JIRA instances of the  *)
(* local config.ini and resolving the default instance.                    *)
(*                                                                         *)
(* A configuration is what ConfigParser.ConfigParser holds after read():   *)
(*   defaults : option -> raw value       (the [DEFAULT] stanza)           *)
(*   sections : section name -> (option -> raw value)                      *)
(* Section names, option names and values are strings.  Option names are   *)
(* lower case (ConfigParser lower-cases them while parsing).  Every '%'    *)
(* in a value of the universe starts a well-formed '%(option)s' reference, *)
(* so interpolation either succeeds or raises an InterpolationError.       *)
(* The '__name__' entry ConfigParser keeps per section is left out: no     *)
(* value of the universe refers to it and items() removes it.              *)
(***************************************************************************)
EXTENDS Integers, Sequences, FiniteSets, TLC

VARIABLES
    file,      \* config.ini on disk: [exists, defaults, sections]
    pc,        \* "idle" or "returned" (a call has produced its outcome)
    call,      \* the call just made: [op, name, config]
    outcome,   \* what the call produced: [status, value]
    prev       \* history: the previous completed call [op, name, cfg, outcome]

vars == <<file, pc, call, outcome, prev>>

---------------------------------------------------------------------------
(* Bounds *)

MaxSections == 3     \* sections in config.ini (besides [DEFAULT])
MaxOptions  == 2     \* options in config.ini, all stanzas together
HistMaxOptions == 2  \* the same, in the specification with call history

(* Universe of the texts that occur in config.ini *)
SectionNames ==
    {"instance-main", "instance-", "instance-default",
     "default-instance", "old-instance-main"}
HistSectionNames == {"instance-main", "default-instance"}
HistValues == {"", "main"}
OptionNames == {"name", "hostname"}
Values == {"", "main", "%(hostname)s"}
Names == {"", "main", "default"}   \* names a caller asks for

---------------------------------------------------------------------------
(* Constants of conf.py and of ConfigParser *)

INSTANCE_SECTION_PREFIX  == "instance-"
INSTANCE_NAME_OFFSET     == Len(INSTANCE_SECTION_PREFIX)
DEFAULT_INSTANCE_SECTION == "default-instance"
MAX_INTERPOLATION_DEPTH  == 10

---------------------------------------------------------------------------
(* Python values *)

None == <<>>                    \* an optional x is None or Some(x)
Some(x) == <<x>>
\* variant: every str counts as true
Truthy_any(s) == TRUE
Truthy(s) == s # ""             \* truth value of a str

EmptyMap == <<>>                \* the empty dict

Ok(v)    == [status |-> "ok", value |-> v]
Raise(e) == [status |-> e, value |-> EmptyMap]

\* position of the first occurrence of sub in s at or after from, 0 if none
Find(s, sub, from) ==
    LET hits == {i \in from..(Len(s) - Len(sub) + 1) :
                    SubSeq(s, i, i + Len(sub) - 1) = sub}
    IN  IF hits = {} THEN 0 ELSE CHOOSE i \in hits : \A j \in hits : i <= j

\* variant: p anywhere in s
startswith_anywhere(s, p) == Find(s, p, 1) # 0
startswith(s, p) == Len(s) >= Len(p) /\ SubSeq(s, 1, Len(p)) = p

\* variant: the slice starts one character early
SliceFrom_early(s, off) == SubSeq(s, off, Len(s))
SliceFrom(s, off) == SubSeq(s, off + 1, Len(s))      \* s[off:]

---------------------------------------------------------------------------
(* ConfigParser.ConfigParser *)

EmptyConfig == [defaults |-> EmptyMap, sections |-> EmptyMap]

sections(config) == DOMAIN config.sections

has_section(config, section) == section \in DOMAIN config.sections

\* variant: only the section's own options count
has_option_own(config, section, option) ==
    IF section \notin DOMAIN config.sections THEN FALSE
    ELSE option \in DOMAIN config.sections[section]
has_option(config, section, option) ==
    IF section \notin DOMAIN config.sections THEN FALSE
    ELSE \/ option \in DOMAIN config.sections[section]
         \/ option \in DOMAIN config.defaults

\* variant: the defaults laid over the section's options
Chain_defaults_first(config, section) ==
    LET own == config.sections[section]
    IN  [o \in DOMAIN config.defaults \cup DOMAIN own |->
            IF o \in DOMAIN config.defaults THEN config.defaults[o] ELSE own[o]]
\* the section's options laid over the defaults, raw
Chain(config, section) ==
    LET own == config.sections[section]
    IN  [o \in DOMAIN config.defaults \cup DOMAIN own |->
            IF o \in DOMAIN own THEN own[o] ELSE config.defaults[o]]

\* one pass of  value % d : every %(key)s replaced by d[key]
RECURSIVE Format(_, _)
Format(value, d) ==
    LET i == Find(value, "%(", 1)
        j == Find(value, ")s", i + 2)
        key == SubSeq(value, i + 2, j - 1)
        rest == Format(SubSeq(value, j + 2, Len(value)), d)
    IN  IF i = 0 THEN Ok(value)
        ELSE IF j = 0 \/ key \notin DOMAIN d THEN Raise("InterpolationError")
        ELSE IF rest.status # "ok" THEN rest
        ELSE Ok(SubSeq(value, 1, i - 1) \o d[key] \o rest.value)

RECURSIVE InterpolateLoop(_, _, _)
InterpolateLoop(value, d, depth) ==
    IF depth = 0 \/ Find(value, "%(", 1) = 0
    THEN IF Find(value, "%(", 1) # 0 THEN Raise("InterpolationError")
                                      ELSE Ok(value)
    ELSE LET r == Format(value, d)
         IN  IF r.status # "ok" THEN r
             ELSE InterpolateLoop(r.value, d, depth - 1)

interpolate(rawval, d) == InterpolateLoop(rawval, d, MAX_INTERPOLATION_DEPTH)

get(config, section, option) ==
    interpolate(Chain(config, section)[option], Chain(config, section))

items(config, section) ==
    LET d == Chain(config, section)
    IN  IF \E o \in DOMAIN d : interpolate(d[o], d).status # "ok"
        THEN Raise("InterpolationError")
        ELSE Ok([o \in DOMAIN d |-> interpolate(d[o], d).value])

---------------------------------------------------------------------------
(* conf.py *)

\* variant: a missing config.ini is replaced by a sample
get_local_conf_sample ==
    IF file.exists
    THEN [defaults |-> file.defaults, sections |-> file.sections]
    ELSE [defaults |-> EmptyMap,
          sections |-> [x \in {"instance-main"} |-> EmptyMap]]
\* variant: the configuration of the previous call is kept and used again
get_local_conf_cached ==
    IF prev.op # "none" THEN prev.cfg
    ELSE IF file.exists
    THEN [defaults |-> file.defaults, sections |-> file.sections]
    ELSE EmptyConfig
\* config.read() skips a file that does not exist
get_local_conf ==
    IF file.exists
    THEN [defaults |-> file.defaults, sections |-> file.sections]
    ELSE EmptyConfig

get_jira_instances(config_arg) ==
    LET config == IF config_arg # None THEN config_arg[1] ELSE get_local_conf
        instance_sections ==
            {section \in sections(config) :
                startswith(section, INSTANCE_SECTION_PREFIX)}
        keys == {SliceFrom(section, INSTANCE_NAME_OFFSET) :
                    section \in instance_sections}
        of(k) == CHOOSE section \in instance_sections :
                    SliceFrom(section, INSTANCE_NAME_OFFSET) = k
        jira_instances == [k \in keys |-> items(config, of(k)).value]
        named == /\ has_section(config, DEFAULT_INSTANCE_SECTION)
                 /\ has_option(config, DEFAULT_INSTANCE_SECTION, "name")
        got == get(config, DEFAULT_INSTANCE_SECTION, "name")
    IN  IF \E section \in instance_sections :
               items(config, section).status # "ok"
        THEN Raise("InterpolationError")
        ELSE IF named /\ got.status # "ok" THEN got
        ELSE LET default_instance == IF named THEN Some(got.value) ELSE None
             IN  IF default_instance # None /\ Truthy(default_instance[1])
                 THEN IF default_instance[1] \notin DOMAIN jira_instances
                      THEN Raise("KeyError")
                      ELSE Ok([k \in keys \cup {"default"} |->
                                 IF k = "default"
                                 THEN jira_instances[default_instance[1]]
                                 ELSE jira_instances[k]])
                 ELSE Ok(jira_instances)

\* variant: another literal than 'default'
name_or_main(name_arg) ==
    IF name_arg # None /\ Truthy(name_arg[1]) THEN name_arg[1] ELSE "main"
\* name or 'default'
name_or_default(name_arg) ==
    IF name_arg # None /\ Truthy(name_arg[1]) THEN name_arg[1] ELSE "default"

get_jira_instance(name_arg, config_arg) ==
    LET jira_instances == get_jira_instances(config_arg)
        key == name_or_default(name_arg)
    IN  IF jira_instances.status # "ok" THEN jira_instances
        ELSE IF key \notin DOMAIN jira_instances.value THEN Raise("KeyError")
        ELSE Ok(jira_instances.value[key])

---------------------------------------------------------------------------
(* Configurations a caller passes instead of having config.ini read *)

MapOf1(k, v) == [x \in {k} |-> v]
MapOf2(k1, v1, k2, v2) == [x \in {k1, k2} |-> IF x = k1 THEN v1 ELSE v2]
MapOf3(k1, v1, k2, v2, k3, v3) ==
    [x \in {k1, k2, k3} |-> IF x = k1 THEN v1 ELSE IF x = k2 THEN v2 ELSE v3]

SuppliedConfigs ==
    { [defaults |-> EmptyMap,
       sections |-> MapOf3("instance-main", MapOf1("hostname", "main"),
                           "instance-default", EmptyMap,
                           "default-instance", MapOf1("name", "main"))],
      [defaults |-> EmptyMap,
       sections |-> MapOf2("instance-main", MapOf1("hostname", "main"),
                           "default-instance", MapOf1("name", "other"))],
      [defaults |-> EmptyMap,
       sections |-> MapOf2("instance-main", MapOf1("hostname", "main"),
                           "default-instance", MapOf1("name", ""))],
      [defaults |-> EmptyMap,
       sections |-> MapOf3("instance-", MapOf1("hostname", "main"),
                           "instance-default", EmptyMap,
                           "default-instance", MapOf1("name", ""))] }

---------------------------------------------------------------------------
(* State machine *)

NoCall == [op |-> "none", name |-> None, config |-> None]
NoOutcome == Raise("none")
NoPrev == [op |-> "none", name |-> None, cfg |-> EmptyConfig,
           outcome |-> NoOutcome]

OptionCount(f) ==
    LET RECURSIVE Sum(_)
        Sum(S) == IF S = {} THEN 0
                  ELSE LET s == CHOOSE x \in S : TRUE
                       IN  Cardinality(DOMAIN f.sections[s]) + Sum(S \ {s})
    IN  Cardinality(DOMAIN f.defaults) + Sum(DOMAIN f.sections)

Without(m, k) == [x \in DOMAIN m \ {k} |-> m[x]]
With(m, k, v) == [x \in DOMAIN m \cup {k} |-> IF x = k THEN v ELSE m[x]]

Init ==
    /\ file = [exists |-> FALSE, defaults |-> EmptyMap, sections |-> EmptyMap]
    /\ pc = "idle"
    /\ call = NoCall
    /\ outcome = NoOutcome
    /\ prev = NoPrev

\* the user creates an empty config.ini
CreateFile ==
    /\ pc = "idle" /\ ~file.exists
    /\ file' = [file EXCEPT !.exists = TRUE]
    /\ UNCHANGED <<pc, call, outcome, prev>>

\* the user deletes config.ini
DeleteFile ==
    /\ pc = "idle" /\ file.exists
    /\ file' = [exists |-> FALSE, defaults |-> EmptyMap, sections |-> EmptyMap]
    /\ UNCHANGED <<pc, call, outcome, prev>>

\* the user adds an empty stanza
AddSection(universe) ==
    /\ pc = "idle" /\ file.exists
    /\ Cardinality(DOMAIN file.sections) < MaxSections
    /\ \E s \in universe \ DOMAIN file.sections :
          file' = [file EXCEPT !.sections = With(@, s, EmptyMap)]
    /\ UNCHANGED <<pc, call, outcome, prev>>

\* the user removes a stanza with its options
RemoveSection ==
    /\ pc = "idle" /\ file.exists
    /\ \E s \in DOMAIN file.sections :
          file' = [file EXCEPT !.sections = Without(@, s)]
    /\ UNCHANGED <<pc, call, outcome, prev>>

\* the user writes  option = value  into a stanza or into [DEFAULT]
SetOption(values, maxOptions) ==
    /\ pc = "idle" /\ file.exists
    /\ \E o \in OptionNames, v \in values :
          \/ /\ o \in DOMAIN file.defaults \/ OptionCount(file) < maxOptions
             /\ file' = [file EXCEPT !.defaults = With(@, o, v)]
          \/ \E s \in DOMAIN file.sections :
               /\ o \in DOMAIN file.sections[s] \/ OptionCount(file) < maxOptions
               /\ file' = [file EXCEPT !.sections[s] = With(@, o, v)]
    /\ file' # file
    /\ UNCHANGED <<pc, call, outcome, prev>>

\* the user removes an option line
RemoveOption ==
    /\ pc = "idle" /\ file.exists
    /\ \/ \E o \in DOMAIN file.defaults :
             file' = [file EXCEPT !.defaults = Without(@, o)]
       \/ \E s \in DOMAIN file.sections : \E o \in DOMAIN file.sections[s] :
             file' = [file EXCEPT !.sections[s] = Without(@, o)]
    /\ UNCHANGED <<pc, call, outcome, prev>>

ConfigArgs == {None} \cup {Some(c) : c \in SuppliedConfigs}
NameArgs == {None} \cup {Some(n) : n \in Names}
HistConfigArgs == {None, Some(EmptyConfig)}
HistNameArgs == {None, Some("main")}

\* a caller runs get_jira_instances(config)
CallGetJiraInstances(configs) ==
    /\ pc = "idle"
    /\ \E c \in configs :
          /\ call' = [op |-> "get_jira_instances", name |-> None, config |-> c]
          /\ outcome' = get_jira_instances(c)
    /\ pc' = "returned"
    /\ UNCHANGED <<file, prev>>

\* a caller runs get_jira_instance(name, config)
CallGetJiraInstance(names, configs) ==
    /\ pc = "idle"
    /\ \E n \in names, c \in configs :
          /\ call' = [op |-> "get_jira_instance", name |-> n, config |-> c]
          /\ outcome' = get_jira_instance(n, c)
    /\ pc' = "returned"
    /\ UNCHANGED <<file, prev>>

\* the caller has consumed the outcome
Done ==
    /\ pc = "returned"
    /\ pc' = "idle"
    /\ call' = NoCall
    /\ outcome' = NoOutcome
    /\ UNCHANGED <<file, prev>>

Next ==
    \/ CreateFile
    \/ DeleteFile
    \/ AddSection(SectionNames)
    \/ RemoveSection
    \/ SetOption(Values, MaxOptions)
    \/ RemoveOption
    \/ CallGetJiraInstances(ConfigArgs)
    \/ CallGetJiraInstance(NameArgs, ConfigArgs)
    \/ Done

Spec == Init /\ [][Next]_vars

(* The same machine over a smaller universe, remembering the previous call *)

\* the configuration the call in progress worked on
ConfigAtCall ==
    IF call.config # None THEN call.config[1]
    ELSE IF file.exists
         THEN [defaults |-> file.defaults, sections |-> file.sections]
         ELSE EmptyConfig

\* the caller has consumed the outcome; the history keeps the call
Remember ==
    /\ pc = "returned"
    /\ pc' = "idle"
    /\ call' = NoCall
    /\ outcome' = NoOutcome
    /\ prev' = [op |-> call.op, name |-> call.name, cfg |-> ConfigAtCall,
                outcome |-> outcome]
    /\ UNCHANGED file

NextHist ==
    \/ CreateFile
    \/ DeleteFile
    \/ AddSection(HistSectionNames)
    \/ RemoveSection
    \/ SetOption(HistValues, HistMaxOptions)
    \/ RemoveOption
    \/ CallGetJiraInstances(HistConfigArgs)
    \/ CallGetJiraInstance(HistNameArgs, HistConfigArgs)
    \/ Remember

SpecHist == Init /\ [][NextHist]_vars

---------------------------------------------------------------------------
(* Vocabulary of the properties, stated over the configuration itself *)

Returned(op) == pc = "returned" /\ call.op = op

Cfg == ConfigAtCall

\* every text that can follow a prefix of a section name
KeyUniverse ==
    UNION {{SubSeq(s, i, Len(s)) : i \in 1..(Len(s) + 1)} : s \in SectionNames}

SectionOf(n) == "instance-" \o n

\* X1..XN: the names n for which a section instance-n exists
InstanceNames(cfg) ==
    {n \in KeyUniverse : SectionOf(n) \in DOMAIN cfg.sections}

HasDefaultSection(cfg) == "default-instance" \in DOMAIN cfg.sections

\* default-instance exists and has an option 'name' (its own or [DEFAULT]'s)
DefaultNamed(cfg) ==
    /\ HasDefaultSection(cfg)
    /\ \/ "name" \in DOMAIN cfg.sections["default-instance"]
       \/ "name" \in DOMAIN cfg.defaults

\* the options of a section as written, [DEFAULT]'s options under them
Written(cfg, s) ==
    [o \in DOMAIN cfg.defaults \cup DOMAIN cfg.sections[s] |->
        IF o \in DOMAIN cfg.sections[s] THEN cfg.sections[s][o]
        ELSE cfg.defaults[o]]

Interpolates(cfg, s) ==
    \A o \in DOMAIN Written(cfg, s) :
        interpolate(Written(cfg, s)[o], Written(cfg, s)).status = "ok"

\* what config.items(s) is to give: Written(cfg, s), references replaced
Profile(cfg, s) ==
    [o \in DOMAIN Written(cfg, s) |->
        interpolate(Written(cfg, s)[o], Written(cfg, s)).value]

\* every instance section interpolates, and so does the default's name
AllInterpolate(cfg) ==
    /\ \A n \in InstanceNames(cfg) : Interpolates(cfg, SectionOf(n))
    /\ DefaultNamed(cfg) =>
          interpolate(Written(cfg, "default-instance")["name"],
                      Written(cfg, "default-instance")).status = "ok"

\* the text value of default-instance's name
AliasValue(cfg) ==
    interpolate(Written(cfg, "default-instance")["name"],
                Written(cfg, "default-instance")).value

\* a default is named with a non-empty text
AliasSet(cfg) == DefaultNamed(cfg) /\ AliasValue(cfg) # ""

\* the table get_jira_instances is to return when it succeeds
InstanceTable(cfg) ==
    LET alias == IF AliasSet(cfg) THEN {"default"} ELSE {}
    IN  [k \in InstanceNames(cfg) \cup alias |->
            IF k \in alias
            THEN Profile(cfg, SectionOf(AliasValue(cfg)))
            ELSE Profile(cfg, SectionOf(k))]

\* get_jira_instances succeeds on cfg
Resolves(cfg) ==
    /\ AllInterpolate(cfg)
    /\ AliasSet(cfg) => AliasValue(cfg) \in InstanceNames(cfg)

\* default-instance has a name whose text value can be read
NameReads(cfg) ==
    /\ DefaultNamed(cfg)
    /\ interpolate(Written(cfg, "default-instance")["name"],
                   Written(cfg, "default-instance")).status = "ok"

\* the call named no configuration and config.ini is missing or has no
\* section, or the configuration it named has no section
NoSections ==
    IF call.config # None THEN DOMAIN call.config[1].sections = {}
    ELSE ~file.exists \/ DOMAIN file.sections = {}

---------------------------------------------------------------------------
(* C1 *)

\* C1 as stated: without a default-instance section get_jira_instances
\* returns exactly the entries X1..XN, each the section's own options, and
\* the table has no 'default' key, whatever the names are.
C1_AsStated ==
    (Returned("get_jira_instances") /\ ~HasDefaultSection(Cfg)) =>
        /\ outcome.status = "ok"
        /\ DOMAIN outcome.value = InstanceNames(Cfg)
        /\ \A n \in InstanceNames(Cfg) :
              outcome.value[n] = Cfg.sections[SectionOf(n)]
        /\ "default" \notin DOMAIN outcome.value

\* C1 amended: without a default-instance section, when every value
\* interpolates, get_jira_instances returns exactly the entries X1..XN,
\* each the section's options as config.items gives them (its own options
\* over those of [DEFAULT], references replaced); the table has a 'default'
\* key exactly when one of the Xi is 'default'.
C1_Instances ==
    (Returned("get_jira_instances") /\ ~HasDefaultSection(Cfg)
        /\ AllInterpolate(Cfg)) =>
        /\ outcome.status = "ok"
        /\ DOMAIN outcome.value = InstanceNames(Cfg)
        /\ \A n \in InstanceNames(Cfg) :
              outcome.value[n] = Profile(Cfg, SectionOf(n))
        /\ "default" \in DOMAIN outcome.value <=> "default" \in InstanceNames(Cfg)

C1_Witness ==
    /\ Returned("get_jira_instances") /\ ~HasDefaultSection(Cfg)
    /\ AllInterpolate(Cfg)
    /\ Cardinality(InstanceNames(Cfg)) >= 2
    /\ outcome.status = "ok"
    /\ "default" \in DOMAIN outcome.value
    /\ \E n \in InstanceNames(Cfg) :
          outcome.value[n] # Cfg.sections[SectionOf(n)]

---------------------------------------------------------------------------
(* C2 *)

\* C2 as stated, for the non-empty names X1 (the empty name is the case of
\* C3): when default-instance names a defined instance X1,
\* get_jira_instances returns the N instance entries plus a 'default' entry,
\* N+1 keys in total, and the 'default' entry equals the X1 entry.
C2_AsStated ==
    (Returned("get_jira_instances") /\ NameReads(Cfg)
        /\ AliasValue(Cfg) # ""
        /\ AliasValue(Cfg) \in InstanceNames(Cfg)) =>
        /\ outcome.status = "ok"
        /\ DOMAIN outcome.value = InstanceNames(Cfg) \cup {"default"}
        /\ Cardinality(DOMAIN outcome.value)
              = Cardinality(InstanceNames(Cfg)) + 1
        /\ outcome.value["default"] = outcome.value[AliasValue(Cfg)]

\* C2 amended: when default-instance names a defined instance X1 and every
\* value interpolates, get_jira_instances succeeds.  If X1 is not empty the
\* table holds the instance entries and a 'default' entry equal to the X1
\* entry: N+1 keys when no section instance-default exists, N keys when one
\* does (the alias takes its place).  If X1 is empty no alias is assigned and
\* the table is the N instance entries.
C2_DefaultEntry ==
    (Returned("get_jira_instances") /\ NameReads(Cfg)
        /\ AliasValue(Cfg) \in InstanceNames(Cfg) /\ AllInterpolate(Cfg)) =>
        /\ outcome.status = "ok"
        /\ \A n \in InstanceNames(Cfg) \ {"default"} :
              /\ n \in DOMAIN outcome.value
              /\ outcome.value[n] = Profile(Cfg, SectionOf(n))
        /\ IF AliasValue(Cfg) # ""
           THEN /\ DOMAIN outcome.value = InstanceNames(Cfg) \cup {"default"}
                /\ outcome.value["default"] = outcome.value[AliasValue(Cfg)]
                /\ outcome.value["default"]
                      = Profile(Cfg, SectionOf(AliasValue(Cfg)))
                /\ Cardinality(DOMAIN outcome.value)
                      = Cardinality(InstanceNames(Cfg))
                        + (IF "default" \in InstanceNames(Cfg) THEN 0 ELSE 1)
           ELSE /\ DOMAIN outcome.value = InstanceNames(Cfg)
                /\ "default" \in DOMAIN outcome.value =>
                      outcome.value["default"]
                         = Profile(Cfg, SectionOf("default"))

C2_Witness ==
    /\ Returned("get_jira_instances") /\ NameReads(Cfg)
    /\ AllInterpolate(Cfg)
    /\ AliasValue(Cfg) = "main" /\ "main" \in InstanceNames(Cfg)
    /\ "default" \in InstanceNames(Cfg)
    /\ outcome.status = "ok"
    /\ outcome.value["default"] # Profile(Cfg, SectionOf("default"))

---------------------------------------------------------------------------
(* C3 *)

\* C3 as stated: when the text value of default-instance's name, the empty
\* text included, is not the name of an instance section, get_jira_instances
\* fails with a missing-key error and returns no table.
C3_AsStated ==
    (Returned("get_jira_instances") /\ NameReads(Cfg) /\ AllInterpolate(Cfg)
        /\ AliasValue(Cfg) \notin InstanceNames(Cfg)) =>
        outcome.status = "KeyError"

---------------------------------------------------------------------------
(* C4 *)

\* C4 as stated: with no default configured, get_jira_instance() with no
\* name fails with a missing-key error, whatever instance sections exist.
C4_AsStated ==
    (Returned("get_jira_instance") /\ call.name = None
        /\ ~DefaultNamed(Cfg)) =>
        outcome.status = "KeyError"

\* C4 amended: with no default configured and every value interpolating,
\* get_jira_instance() with no name fails with a missing-key error unless a
\* section instance-default exists; then it returns that section's options.
C4_NoDefault ==
    (Returned("get_jira_instance") /\ call.name = None
        /\ ~DefaultNamed(Cfg) /\ AllInterpolate(Cfg)) =>
        IF "default" \in InstanceNames(Cfg)
        THEN outcome = Ok(Profile(Cfg, SectionOf("default")))
        ELSE outcome = Raise("KeyError")

C4_Witness ==
    /\ Returned("get_jira_instance") /\ call.name = None
    /\ ~DefaultNamed(Cfg) /\ AllInterpolate(Cfg)
    /\ HasDefaultSection(Cfg)
    /\ "main" \in InstanceNames(Cfg) /\ "default" \notin InstanceNames(Cfg)
    /\ outcome.status = "KeyError"

---------------------------------------------------------------------------
(* C5 *)

\* C5 as stated, for the non-empty names: when get_jira_instances succeeds,
\* get_jira_instance(name) returns, for every key of the table ('default'
\* included), the raw options of the section 'instance-' + name.
C5_AsStated ==
    (Returned("get_jira_instance") /\ call.name # None /\ Resolves(Cfg)
        /\ call.name[1] # ""
        /\ call.name[1] \in DOMAIN InstanceTable(Cfg)) =>
        /\ SectionOf(call.name[1]) \in DOMAIN Cfg.sections
        /\ outcome = Ok(Cfg.sections[SectionOf(call.name[1])])

\* C5 amended: when get_jira_instances succeeds, get_jira_instance(name)
\* returns, for every non-empty key of the table, the options of the section
\* 'instance-' + name as config.items gives them (its own options over those
\* of [DEFAULT], references replaced), except that for 'default' under a
\* non-empty default-instance name it returns those of the named instance;
\* for the empty name it acts as with no name: the 'default' entry, or a
\* missing-key error when there is none.
C5_RoundTrip ==
    (Returned("get_jira_instance") /\ call.name # None /\ Resolves(Cfg)
        /\ call.name[1] \in DOMAIN InstanceTable(Cfg)) =>
        LET n == call.name[1]
        IN  IF n = ""
            THEN IF "default" \in DOMAIN InstanceTable(Cfg)
                 THEN outcome = Ok(InstanceTable(Cfg)["default"])
                 ELSE outcome = Raise("KeyError")
            ELSE IF n = "default" /\ AliasSet(Cfg)
            THEN outcome = Ok(Profile(Cfg, SectionOf(AliasValue(Cfg))))
            ELSE outcome = Ok(Profile(Cfg, SectionOf(n)))

C5_Witness ==
    /\ Returned("get_jira_instance") /\ call.name = Some("main")
    /\ Resolves(Cfg) /\ "main" \in InstanceNames(Cfg)
    /\ outcome.status = "ok"
    /\ outcome.value # Cfg.sections[SectionOf("main")]
    /\ \E o \in DOMAIN Cfg.sections[SectionOf("main")] :
          Find(Cfg.sections[SectionOf("main")][o], "%(", 1) # 0

---------------------------------------------------------------------------
(* C6 *)

---------------------------------------------------------------------------
(* C7 *)

\* C7: when config.ini is missing or has no section, reading it raises no
\* error, get_jira_instances returns the empty table and get_jira_instance()
\* with no name fails with a missing-key error.
C7_EmptyConfig ==
    /\ (Returned("get_jira_instances") /\ NoSections) =>
          outcome = Ok(EmptyMap)
    /\ (Returned("get_jira_instance") /\ call.name = None /\ NoSections) =>
          outcome = Raise("KeyError")

C7_Witness ==
    /\ Returned("get_jira_instance") /\ call.name = None
    /\ call.config = None /\ ~file.exists
    /\ outcome = Raise("KeyError")

---------------------------------------------------------------------------
(* C8 *)

\* C8: in every table get_jira_instances returns, each key other than
\* 'default' is the name of exactly one section 'instance-' + key, every
\* section whose name starts with 'instance-' contributes its key, and no
\* other section contributes one.
C8_Keys ==
    (Returned("get_jira_instances") /\ outcome.status = "ok") =>
        /\ \A k \in DOMAIN outcome.value \ {"default"} :
              SectionOf(k) \in DOMAIN Cfg.sections
        /\ \A n \in InstanceNames(Cfg) : n \in DOMAIN outcome.value
        /\ Cardinality(DOMAIN outcome.value \ {"default"})
              = Cardinality({s \in DOMAIN Cfg.sections :
                                \E n \in KeyUniverse \ {"default"} :
                                    s = SectionOf(n)})

C8_Witness ==
    /\ Returned("get_jira_instances") /\ outcome.status = "ok"
    /\ "old-instance-main" \in DOMAIN Cfg.sections
    /\ HasDefaultSection(Cfg)
    /\ "main" \notin DOMAIN outcome.value
    /\ "" \in DOMAIN outcome.value

---------------------------------------------------------------------------
(* C9 *)

\* the call in progress repeats the previous call on an equal configuration
\* and has the outcome the previous call had
SameAsBefore ==
    (pc = "returned" /\ prev.op = call.op /\ prev.name = call.name
        /\ prev.cfg = Cfg) =>
        prev.outcome = outcome

---------------------------------------------------------------------------
(* C10 *)

\* C10 as stated: with a section instance-default and a default-instance
\* whose name is a defined instance X other than 'default', the 'default'
\* key of the returned table holds X's options, never instance-default's.
C10_AsStated ==
    (Returned("get_jira_instances") /\ outcome.status = "ok"
        /\ "default" \in InstanceNames(Cfg) /\ NameReads(Cfg)
        /\ AliasValue(Cfg) \in InstanceNames(Cfg)
        /\ AliasValue(Cfg) # "default") =>
        /\ "default" \in DOMAIN outcome.value
        /\ outcome.value["default"] = Profile(Cfg, SectionOf(AliasValue(Cfg)))

=============================================================================
